---------------------------- MODULE Spec2Model ----------------------------
(***************************************************************************)
(* Model of the OMS Daily Report Processor (src/script.js).                *)
(*                                                                         *)
(* Text is a sequence of one-character strings, so that trimming,          *)
(* splitting, case conversion and pattern matching are computed character  *)
(* by character as the JavaScript does.  A JavaScript value that may be    *)
(* null is a record with an "ok" field.                                    *)
(***************************************************************************)
EXTENDS Integers, Sequences, FiniteSets, TLC

VARIABLES
    pasteArea,              \* pasteArea.value
    filledByInput,          \* filledByInput.value
    outputContainer,        \* outputContainer.innerHTML, abstracted to its three shapes
    copyBtnDisabled,        \* copyBtn.disabled
    currentProcessedData,   \* the global of script.js:352
    notification,           \* notification.textContent / className / 'show'
    clipboard,              \* the system clipboard text, [ok |-> FALSE] before any copy
    emitted,                \* the showNotification calls of the most recent handler or call
    lastOp,                 \* the most recent handler or call
    arg,                    \* the argument of the function under call
    ret                     \* what the function under call returned

vars == <<pasteArea, filledByInput, outputContainer, copyBtnDisabled,
          currentProcessedData, notification, clipboard, emitted, lastOp, arg, ret>>

uiVars == <<pasteArea, filledByInput, outputContainer, copyBtnDisabled,
            currentProcessedData, notification, clipboard>>

-----------------------------------------------------------------------------
(* Characters and the String.prototype methods the script uses.            *)

LowerLetters == <<"a", "b", "c", "d", "e", "f", "g", "h", "i", "j", "k", "l", "m", "n", "o", "p", "q", "r", "s", "t", "u", "v", "w", "x", "y", "z">>

UpperLetters == <<"A", "B", "C", "D", "E", "F", "G", "H", "I", "J", "K", "L", "M", "N", "O", "P", "Q", "R", "S", "T", "U", "V", "W", "X", "Y", "Z">>

Digits == {"0", "1", "2", "3", "4", "5", "6", "7", "8", "9"}

WhiteSpace == {" ", "\t", "\n", "\r"}

IsLower(c) == c \in {LowerLetters[i] : i \in 1..Len(LowerLetters)}

IsUpper(c) == c \in {UpperLetters[i] : i \in 1..Len(UpperLetters)}

\* The upper-case letter of each lower-case letter, and the converse.
UpperOf ==
    [c \in {LowerLetters[i] : i \in 1..Len(LowerLetters)} |->
        UpperLetters[CHOOSE i \in 1..Len(LowerLetters) : LowerLetters[i] = c]]

LowerOf ==
    [c \in {UpperLetters[i] : i \in 1..Len(UpperLetters)} |->
        LowerLetters[CHOOSE i \in 1..Len(UpperLetters) : UpperLetters[i] = c]]

charToUpper(c) == IF c \in DOMAIN UpperOf THEN UpperOf[c] ELSE c

charToLower(c) == IF c \in DOMAIN LowerOf THEN LowerOf[c] ELSE c

toUpperCase(s) == [i \in 1..Len(s) |-> charToUpper(s[i])]

toLowerCase(s) == [i \in 1..Len(s) |-> charToLower(s[i])]

Min(S) == CHOOSE x \in S : \A y \in S : x <= y

Max(S) == CHOOSE x \in S : \A y \in S : x >= y

\* s.trim(): the text between the first and the last non-whitespace character.
trim(s) ==
    LET black == {i \in 1..Len(s) : s[i] \notin WhiteSpace}
    IN IF black = {} THEN <<>> ELSE SubSeq(s, Min(black), Max(black))

\* s.split(sep) for a one-character separator: one piece more than there are
\* separators, piece j lying between separator j-1 and separator j.
split(s, sep) ==
    LET at == {i \in 1..Len(s) : s[i] = sep}
        cut(j) == IF j = 0 THEN 0
                  ELSE IF j > Cardinality(at) THEN Len(s) + 1
                  ELSE CHOOSE p \in at : Cardinality({q \in at : q < p}) = j - 1
    IN [j \in 1..(Cardinality(at) + 1) |-> SubSeq(s, cut(j - 1) + 1, cut(j) - 1)]

\* parts.join(sep)
RECURSIVE join(_, _)
join(parts, sep) ==
    IF parts = <<>> THEN <<>>
    ELSE IF Len(parts) = 1 THEN parts[1]
    ELSE parts[1] \o <<sep>> \o join(Tail(parts), sep)

\* The text at 1-based position i of s starts with p.
StartsAt(s, i, p) ==
    /\ i >= 1
    /\ i + Len(p) - 1 <= Len(s)
    /\ \A k \in 1..Len(p) : s[i + k - 1] = p[k]

-----------------------------------------------------------------------------
(* Constants of the script.                                                *)

INPUT_COLUMNS == <<
    [key |-> "NUMBER",             value |-> <<"N", "u", "m", "b", "e", "r">>],
    [key |-> "CALLER",             value |-> <<"C", "a", "l", "l", "e", "r">>],
    [key |-> "SHORT_DESCRIPTION",  value |-> <<"S", "h", "o", "r", "t", " ", "d", "e", "s", "c", "r", "i", "p", "t", "i", "o", "n">>],
    [key |-> "PRIORITY",           value |-> <<"P", "r", "i", "o", "r", "i", "t", "y">>],
    [key |-> "CONFIGURATION_ITEM", value |-> <<"C", "o", "n", "f", "i", "g", "u", "r", "a", "t", "i", "o", "n", " ", "i", "t", "e", "m">>],
    [key |-> "STATE",              value |-> <<"S", "t", "a", "t", "e">>],
    [key |-> "ASSIGNMENT_GROUP",   value |-> <<"A", "s", "s", "i", "g", "n", "m", "e", "n", "t", " ", "g", "r", "o", "u", "p">>],
    [key |-> "ASSIGNED_TO",        value |-> <<"A", "s", "s", "i", "g", "n", "e", "d", " ", "t", "o">>],
    [key |-> "SLA_DUE",            value |-> <<"S", "L", "A", " ", "d", "u", "e">>],
    [key |-> "OPENED",             value |-> <<"O", "p", "e", "n", "e", "d">>] >>

OUTPUT_COLUMNS == <<
    <<"N", "u", "m", "b", "e", "r">>, <<"S", "t", "a", "t", "e">>, <<"P", "r", "i", "o", "r", "i", "t", "y">>, <<"A", "s", "s", "i", "g", "n", "m", "e", "n", "t", " ", "g", "r", "o", "u", "p">>, <<"f", "i", "l", "l", "e", "d", " ", "b", "y">>, <<"J", "o", "b", " ", "n", "a", "m", "e">> >>

\* A value that may be null (ok = FALSE) together with the notifications the call showed.
Null == [ok |-> FALSE, rows |-> <<>>]

\* The arguments of a showNotification call; n is the number a message embeds.
Note(type, message, n) == [type |-> type, message |-> message, n |-> n]

ErrRequiredColumns ==
    Note("error",
         "Error: Could not find required columns. Please check your data format.", 0)

ErrNoPaste == Note("error", "Please paste some data first", 0)

ErrNoCopy == Note("error", "No data to copy", 0)

ErrCopyFailed == Note("error", "Failed to copy. Please select and copy manually.", 0)

OkCopied == Note("success", "Copied to clipboard!", 0)

OkProcessed(n) == Note("success", "Processed ${n} rows successfully!", n)

-----------------------------------------------------------------------------
(* parsePastedData, script.js:136-189.                                     *)

NonBlank(line) == trim(line) # <<>>

\* The key of the first INPUT_COLUMNS entry whose name equals the header,
\* ignoring case; "" when there is none (the inner for loop, lines 155-160).
MatchKey(normalizedHeader) ==
    LET hits == {k \in 1..Len(INPUT_COLUMNS) :
                    toLowerCase(normalizedHeader) = toLowerCase(INPUT_COLUMNS[k].value)}
    IN IF hits = {} THEN ""
       ELSE INPUT_COLUMNS[Min(hits)].key

\* headers.forEach (lines 151-161): columnIndices as a function from the keys
\* that were assigned to the 0-based index assigned last.
RECURSIVE ColumnIndices(_, _, _)
ColumnIndices(headers, i, acc) ==
    IF i > Len(headers) THEN acc
    ELSE LET key == MatchKey(trim(headers[i]))
         IN IF key = "" THEN ColumnIndices(headers, i + 1, acc)
            ELSE ColumnIndices(headers, i + 1,
                    [k \in (DOMAIN acc) \cup {key} |->
                        IF k = key THEN i - 1 ELSE acc[k]])

\* !columnIndices.KEY : true for a missing key and for index 0 alike.
Not(columnIndices, key) ==
    \/ key \notin DOMAIN columnIndices
    \/ columnIndices[key] = 0

\* columnIndices.KEY !== undefined ? values[columnIndices.KEY] || '' : ''
FieldOf(columnIndices, key, values) ==
    IF key \in DOMAIN columnIndices
    THEN IF columnIndices[key] + 1 <= Len(values)
         THEN values[columnIndices[key] + 1]
         ELSE <<>>
    ELSE <<>>

RowOf(columnIndices, line) ==
    LET cells  == split(line, "\t")
        values == [i \in 1..Len(cells) |-> trim(cells[i])]
    IN [number           |-> FieldOf(columnIndices, "NUMBER", values),
        state            |-> FieldOf(columnIndices, "STATE", values),
        priority         |-> FieldOf(columnIndices, "PRIORITY", values),
        assignmentGroup  |-> FieldOf(columnIndices, "ASSIGNMENT_GROUP", values),
        shortDescription |-> FieldOf(columnIndices, "SHORT_DESCRIPTION", values)]

\* KeepRow with && written for || : a row needs both values to be kept.
KeepRow_NeedsBoth(row) == row.number # <<>> /\ row.shortDescription # <<>>

\* Only add row if it has at least a number or short description (line 183).
KeepRow(row) == row.number # <<>> \/ row.shortDescription # <<>>

\* The for loop of lines 171-186.
RECURSIVE DataRows(_, _, _)
DataRows(columnIndices, lines, i) ==
    IF i > Len(lines) THEN <<>>
    ELSE LET row == RowOf(columnIndices, lines[i])
         IN (IF KeepRow(row) THEN <<row>> ELSE <<>>)
                \o DataRows(columnIndices, lines, i + 1)

LinesOf(text) == SelectSeq(split(trim(text), "\n"), NonBlank)

HeadersOf(lines) ==
    LET hs == split(lines[1], "\t") IN [i \in 1..Len(hs) |-> trim(hs[i])]

\* The result (null or the rows) and the notifications shown on the way.
parsePastedData(text) ==
    IF text = <<>> \/ trim(text) = <<>>
    THEN [result |-> Null, shown |-> <<>>]
    ELSE LET lines == LinesOf(text)
         IN IF Len(lines) = 0
            THEN [result |-> Null, shown |-> <<>>]
            ELSE LET columnIndices == ColumnIndices(HeadersOf(lines), 1, <<>>)
                 IN IF Not(columnIndices, "NUMBER")
                       /\ Not(columnIndices, "SHORT_DESCRIPTION")
                    THEN [result |-> Null, shown |-> <<ErrRequiredColumns>>]
                    ELSE [result |-> [ok |-> TRUE,
                                      rows |-> DataRows(columnIndices, lines, 2)],
                          shown |-> <<>>]

-----------------------------------------------------------------------------
(* extractJobName, script.js:40-104.                                       *)

\* A JavaScript argument: a string (its text) or some other value.
Str(text) == [type |-> "string", text |-> text]

NotAString == {[type |-> "null", text |-> <<>>], [type |-> "number", text |-> <<>>]}

\* [A-Z0-9_] under the i flag
IsWordChar(c) == IsUpper(c) \/ IsLower(c) \/ c \in Digits \/ c = "_"

\* The first position from i on that holds no whitespace (Len(s) + 1 at the end).
SkipSpace(s, i) == Min({j \in i..(Len(s) + 1) : j > Len(s) \/ s[j] \notin WhiteSpace})

\* The first position from i on that holds no word character.
WordEnd(s, i) == Min({j \in i..(Len(s) + 1) : j > Len(s) \/ ~IsWordChar(s[j])})

\* /:\s*OMS_([A-Z0-9_]+)/i anchored at position i: [found, group (match[1]), next].
PatternAt(s, i) ==
    LET o == SkipSpace(s, i + 1)
        g == o + 4
        e == IF g <= Len(s) THEN WordEnd(s, g) ELSE g
    IN IF s[i] = ":" /\ StartsAt(toUpperCase(s), o, <<"O", "M", "S", "_">>) /\ e > g
       THEN [found |-> TRUE, group |-> SubSeq(s, g, e - 1), next |-> e]
       ELSE [found |-> FALSE, group |-> <<>>, next |-> i + 1]

\* shortDescription.matchAll(pattern): the captured groups, left to right, each
\* search starting where the previous match ended.
RECURSIVE matchAll(_, _)
matchAll(s, i) ==
    LET starts == {j \in i..Len(s) : PatternAt(s, j).found}
    IN IF starts = {} THEN <<>>
       ELSE LET m == PatternAt(s, Min(starts))
            IN <<m.group>> \o matchAll(s, m.next)

MatchedText(group) == <<"O", "M", "S", "_">> \o group

\* The for loop of lines 57-66; bestMatch = <<>> stands for null.
RECURSIVE UpperBest(_, _, _)
UpperBest(matches, i, bestMatch) ==
    IF i > Len(matches) THEN bestMatch
    ELSE LET matchedText == MatchedText(matches[i])
         IN IF matchedText = toUpperCase(matchedText)
               /\ (bestMatch = <<>> \/ Len(matchedText) > Len(bestMatch))
            THEN UpperBest(matches, i + 1, matchedText)
            ELSE UpperBest(matches, i + 1, bestMatch)

\* matches.reduce of lines 70-73.
RECURSIVE LongestOf(_, _, _)
LongestOf(matches, i, longest) ==
    IF i > Len(matches) THEN longest
    ELSE LET matchedText == MatchedText(matches[i])
         IN LongestOf(matches, i + 1,
                IF Len(matchedText) > Len(longest) THEN matchedText ELSE longest)

\* BestMatch without the preference for fully upper-case matches.
BestMatch_LongestOnly(matches) == LongestOf(matches, 1, MatchedText(matches[1]))

\* Lines 55-74, for a non-empty list of matches.
BestMatch(matches) ==
    LET upper == UpperBest(matches, 1, <<>>)
    IN IF upper # <<>> THEN upper
       ELSE LongestOf(matches, 1, MatchedText(matches[1]))

daysOfWeek == <<
    <<"S", "u", "n", "d", "a", "y">>, <<"M", "o", "n", "d", "a", "y">>, <<"T", "u", "e", "s", "d", "a", "y">>, <<"W", "e", "d", "n", "e", "s", "d", "a", "y">>, <<"T", "h", "u", "r", "s", "d", "a", "y">>, <<"F", "r", "i", "d", "a", "y">>,
    <<"S", "a", "t", "u", "r", "d", "a", "y">> >>

months == <<
    <<"J", "a", "n", "u", "a", "r", "y">>, <<"F", "e", "b", "r", "u", "a", "r", "y">>, <<"M", "a", "r", "c", "h">>, <<"A", "p", "r", "i", "l">>, <<"M", "a", "y">>, <<"J", "u", "n", "e">>, <<"J", "u", "l", "y">>,
    <<"A", "u", "g", "u", "s", "t">>, <<"S", "e", "p", "t", "e", "m", "b", "e", "r">>, <<"O", "c", "t", "o", "b", "e", "r">>, <<"N", "o", "v", "e", "m", "b", "e", "r">>, <<"D", "e", "c", "e", "m", "b", "e", "r">> >>

dateKeywords == daysOfWeek \o months

Separators == {"_", "-"}

\* bestMatch.match(/(_|-)(?:keyword)/i).index, 0-based; -1 when there is no match.
DateIndex(s, keyword) ==
    LET hits == {i \in 1..Len(s) :
                    /\ s[i] \in Separators
                    /\ StartsAt(toLowerCase(s), i + 1, toLowerCase(keyword))}
    IN IF hits = {} THEN -1 ELSE Min(hits) - 1

\* YearIndex with \d{3} written for \d{4}.
YearIndex_ThreeDigits(s) ==
    LET hits == {i \in 1..Len(s) :
                    /\ s[i] \in Separators
                    /\ i + 3 <= Len(s)
                    /\ \A k \in 1..3 : s[i + k] \in Digits}
    IN IF hits = {} THEN -1 ELSE Min(hits) - 1

\* bestMatch.match(/(_|-)(\d{4})/).index, 0-based; -1 when there is no match.
YearIndex(s) ==
    LET hits == {i \in 1..Len(s) :
                    /\ s[i] \in Separators
                    /\ i + 4 <= Len(s)
                    /\ \A k \in 1..4 : s[i + k] \in Digits}
    IN IF hits = {} THEN -1 ELSE Min(hits) - 1

\* The for loop of lines 83-101, from keyword number k on.
RECURSIVE DateTrim(_, _)
DateTrim(bestMatch, k) ==
    IF k > Len(dateKeywords) THEN bestMatch
    ELSE IF DateIndex(bestMatch, dateKeywords[k]) >= 0
         THEN SubSeq(bestMatch, 1, DateIndex(bestMatch, dateKeywords[k]))
    ELSE IF YearIndex(bestMatch) >= 0
         THEN SubSeq(bestMatch, 1, YearIndex(bestMatch))
    ELSE DateTrim(bestMatch, k + 1)

extractJobName(shortDescription) ==
    IF shortDescription.type # "string" \/ shortDescription.text = <<>>
    THEN <<>>
    ELSE LET matches == matchAll(shortDescription.text, 1)
         IN IF Len(matches) = 0 THEN <<>>
            ELSE toUpperCase(DateTrim(BestMatch(matches), 1))

-----------------------------------------------------------------------------
(* processPriority, script.js:113-130.                                     *)

NotDigitOrHyphen(c) == c \notin Digits /\ c # "-"

\* processed.replace(/moderate/gi, 'Medium'), from position i on: each search
\* starts where the previous match ended.
RECURSIVE ReplaceModerate(_, _)
ReplaceModerate(s, i) ==
    LET hits == {j \in i..Len(s) : StartsAt(toLowerCase(s), j, <<"m", "o", "d", "e", "r", "a", "t", "e">>)}
    IN IF hits = {} THEN SubSeq(s, i, Len(s))
       ELSE SubSeq(s, i, Min(hits) - 1) \o <<"M", "e", "d", "i", "u", "m">>
                \o ReplaceModerate(s, Min(hits) + 8)

\* Capitalize without the toLowerCase() of the tail.
Capitalize_TailKept(s) == <<charToUpper(s[1])>> \o Tail(s)

\* charAt(0).toUpperCase() + slice(1).toLowerCase(), for a non-empty string
Capitalize(s) == <<charToUpper(s[1])>> \o toLowerCase(Tail(s))

processPriority(priority) ==
    IF priority.type # "string" \/ priority.text = <<>>
    THEN <<>>
    ELSE LET stripped == trim(SelectSeq(priority.text, NotDigitOrHyphen))
             processed == ReplaceModerate(stripped, 1)
         IN IF Len(processed) > 0 THEN Capitalize(processed) ELSE processed

-----------------------------------------------------------------------------
(* processData, displayOutput, generateTabSeparatedOutput: script.js:194-269 *)

processData(rawData, filledBy) ==
    [i \in 1..Len(rawData) |->
        [number          |-> rawData[i].number,
         state           |-> rawData[i].state,
         priority        |-> processPriority(Str(rawData[i].priority)),
         assignmentGroup |-> rawData[i].assignmentGroup,
         filledBy        |-> filledBy,
         jobName         |-> extractJobName(Str(rawData[i].shortDescription))]]

\* The three shapes outputContainer.innerHTML takes.  A table holds the text of
\* its body cells, row by row.
Placeholder == [kind |-> "placeholder", rows |-> <<>>]

NoData == [kind |-> "nodata", rows |-> <<>>]

Table(processedData) == [kind |-> "table", rows |-> processedData]

\* displayOutput: the new outputContainer and copyBtn.disabled.
displayOutput(processedData, disabled) ==
    IF Len(processedData) = 0
    THEN [container |-> NoData, disabled |-> disabled]
    ELSE [container |-> Table(processedData), disabled |-> FALSE]

ValuesOf(row) ==
    <<row.number, row.state, row.priority, row.assignmentGroup, row.filledBy, row.jobName>>

RECURSIVE OutputLines(_, _)
OutputLines(processedData, i) ==
    IF i > Len(processedData) THEN <<>>
    ELSE join(ValuesOf(processedData[i]), "\t") \o <<"\n">>
            \o OutputLines(processedData, i + 1)

generateTabSeparatedOutput(processedData) ==
    IF Len(processedData) = 0 THEN <<>>
    ELSE join(OUTPUT_COLUMNS, "\t") \o <<"\n">> \o OutputLines(processedData, 1)

\* The rows copyToClipboard reads back from the table (lines 282-293).
TableData(rows) ==
    [i \in 1..Len(rows) |->
        [number          |-> trim(rows[i].number),
         state           |-> trim(rows[i].state),
         priority        |-> trim(rows[i].priority),
         assignmentGroup |-> trim(rows[i].assignmentGroup),
         filledBy        |-> trim(rows[i].filledBy),
         jobName         |-> trim(rows[i].jobName)]]

-----------------------------------------------------------------------------
(* The page: what the user can type, and the event listeners, lines 351-376. *)

HeaderOnly == <<"S", "t", "a", "t", "e", "\t", "N", "u", "m", "b", "e", "r">>

PasteTexts == {
    <<>>,
    <<" ", "\n", " ">>,
    <<"P", "r", "i", "o", "r", "i", "t", "y", "\t", "S", "t", "a", "t", "e", "\n", "2", " ", "-", " ", "H", "i", "g", "h", "\t", "N", "e", "w">>,
    <<"N", "u", "m", "b", "e", "r", "\t", "S", "t", "a", "t", "e", "\n", "I", "N", "C", "1", "\t", "N", "e", "w">>,
    HeaderOnly,
    <<"S", "h", "o", "r", "t", " ", "d", "e", "s", "c", "r", "i", "p", "t", "i", "o", "n", "\t", "N", "u", "m", "b", "e", "r", "\t", "P", "r", "i", "o", "r", "i", "t", "y", "\n", "J", "o", "b", ":", "O", "M", "S", "_", "A", "B", "_", "S", "u", "n", "d", "a", "y", "\t", "I", "N", "C", "2", "\t", "3", " ", "-", " ", "M", "o", "d", "e", "r", "a", "t", "e", "\n", "\t", "\t", "1">> }

FilledByTexts == { <<>>, <<" ", "m", "e", " ">> }

NoNotification == [shown |-> FALSE, note |-> Note("", "", 0)]

NoClipboard == [ok |-> FALSE, text |-> <<>>]

InitPage ==
    /\ pasteArea = <<>>
    /\ filledByInput = <<>>
    /\ outputContainer = Placeholder
    /\ copyBtnDisabled \in BOOLEAN     \* set by the page's markup, which src/ does not hold
    /\ currentProcessedData = <<>>
    /\ notification = NoNotification
    /\ clipboard = NoClipboard

\* showNotification (lines 330-338): the last call of a handler is what stays shown.
Shown(notes) ==
    IF notes = <<>> THEN notification
    ELSE [shown |-> TRUE, note |-> notes[Len(notes)]]

\* The setTimeout callback of showNotification.
HideNotification ==
    /\ notification.shown
    /\ notification' = [notification EXCEPT !.shown = FALSE]
    /\ emitted' = <<>>
    /\ lastOp' = "timeout"
    /\ UNCHANGED <<pasteArea, filledByInput, outputContainer, copyBtnDisabled,
                   currentProcessedData, clipboard, arg, ret>>

\* The user edits the paste area.
Paste ==
    /\ \E t \in PasteTexts : pasteArea' = t
    /\ emitted' = <<>>
    /\ lastOp' = "paste"
    /\ UNCHANGED <<filledByInput, outputContainer, copyBtnDisabled,
                   currentProcessedData, notification, clipboard, arg, ret>>

\* The user edits the "filled by" field.
TypeFilledBy ==
    /\ \E t \in FilledByTexts : filledByInput' = t
    /\ emitted' = <<>>
    /\ lastOp' = "type"
    /\ UNCHANGED <<pasteArea, outputContainer, copyBtnDisabled,
                   currentProcessedData, notification, clipboard, arg, ret>>

\* ProcessOutcome with the result and the table reset before the input is checked.
ProcessOutcome_ResetsFirst ==
    LET pastedText == trim(pasteArea)
        parsed     == parsePastedData(pastedText)
        processed  == processData(parsed.result.rows, trim(filledByInput))
        display    == displayOutput(processed, copyBtnDisabled)
    IN IF pastedText = <<>>
       THEN [data |-> <<>>, container |-> NoData,
             disabled |-> copyBtnDisabled, shown |-> <<ErrNoPaste>>]
       ELSE IF ~parsed.result.ok
       THEN [data |-> <<>>, container |-> NoData,
             disabled |-> copyBtnDisabled, shown |-> parsed.shown]
       ELSE [data |-> processed, container |-> display.container,
             disabled |-> display.disabled,
             shown |-> parsed.shown \o <<OkProcessed(Len(processed))>>]

\* What a click on processBtn (or Ctrl+Enter) does to the page, lines 355-372:
\* [data, container, disabled, shown].
ProcessOutcome ==
    LET pastedText == trim(pasteArea)
        parsed     == parsePastedData(pastedText)
        processed  == processData(parsed.result.rows, trim(filledByInput))
        display    == displayOutput(processed, copyBtnDisabled)
    IN IF pastedText = <<>>
       THEN [data |-> currentProcessedData, container |-> outputContainer,
             disabled |-> copyBtnDisabled, shown |-> <<ErrNoPaste>>]
       ELSE IF ~parsed.result.ok
       THEN [data |-> currentProcessedData, container |-> outputContainer,
             disabled |-> copyBtnDisabled, shown |-> parsed.shown]
       ELSE [data |-> processed, container |-> display.container,
             disabled |-> display.disabled,
             shown |-> parsed.shown \o <<OkProcessed(Len(processed))>>]

ProcessClick ==
    LET outcome == ProcessOutcome
    IN /\ currentProcessedData' = outcome.data
       /\ outputContainer' = outcome.container
       /\ copyBtnDisabled' = outcome.disabled
       /\ emitted' = outcome.shown
       /\ notification' = Shown(outcome.shown)
       /\ lastOp' = "process"
       /\ UNCHANGED <<pasteArea, filledByInput, clipboard, arg, ret>>

\* copyToClipboard (lines 274-316) behind the copy button, which a disabled
\* button does not run.  The clipboard write succeeds, or fails and the
\* execCommand fallback runs without throwing (whether or not it copied), or
\* both throw.
CopyClick ==
    /\ ~copyBtnDisabled
    /\ IF outputContainer.kind # "table"
       THEN /\ emitted' = <<ErrNoCopy>>
            /\ UNCHANGED clipboard
       ELSE LET tabSeparated ==
                    generateTabSeparatedOutput(TableData(outputContainer.rows))
            IN \/ /\ clipboard' = [ok |-> TRUE, text |-> tabSeparated]
                  /\ emitted' = <<OkCopied>>
               \/ /\ UNCHANGED clipboard
                  /\ emitted' = <<OkCopied>>
               \/ /\ UNCHANGED clipboard
                  /\ emitted' = <<ErrCopyFailed>>
    /\ notification' = Shown(emitted')
    /\ lastOp' = "copy"
    /\ UNCHANGED <<pasteArea, filledByInput, outputContainer, copyBtnDisabled,
                   currentProcessedData, arg, ret>>

\* clearAll, lines 343-349.
ClearClick ==
    /\ pasteArea' = <<>>
    /\ filledByInput' = <<>>
    /\ outputContainer' = Placeholder
    /\ copyBtnDisabled' = TRUE
    /\ emitted' = <<>>
    /\ lastOp' = "clear"
    /\ UNCHANGED <<currentProcessedData, notification, clipboard, arg, ret>>

NoCall == [type |-> "none", text |-> <<>>]

Init ==
    /\ InitPage
    /\ emitted = <<>>
    /\ lastOp = "load"
    /\ arg = NoCall
    /\ ret = <<>>

Next ==
    \/ Paste
    \/ TypeFilledBy
    \/ ProcessClick
    \/ CopyClick
    \/ ClearClick
    \/ HideNotification

Spec == Init /\ [][Next]_vars

-----------------------------------------------------------------------------
(* parsePastedData called on its own, on texts built from a header line    *)
(* and data lines.                                                         *)

MaxCols == 2

MaxRows == 2

HeaderCells == { <<"N", "u", "m", "b", "e", "r">>, <<"s", "h", "o", "r", "t", " ", "d", "e", "s", "c", "r", "i", "p", "t", "i", "o", "n", " ">>, <<"P", "R", "I", "O", "R", "I", "T", "Y">>, <<"S", "t", "a", "t", "e">>, <<"O", "t", "h", "e", "r">> }

\* A paste may start with an empty first column.
HeaderLeads == { <<>>, <<"\t">> }

DataLineSamples == { <<" ", "\t", " ">>, <<"A", "\t", " ", "b">>, <<"\t", "c", "\t", "D">>, <<"e">> }

SeqsUpTo(S, n) == UNION {[1..k -> S] : k \in 0..n}

HeaderLines ==
    {lead \o join(cells, "\t") :
        lead \in HeaderLeads, cells \in SeqsUpTo(HeaderCells, MaxCols) \ {<<>>}}

ParseTexts ==
    {<<>>, <<" ", "\n">>}
        \cup {join(<<h>> \o body, "\n") :
                h \in HeaderLines, body \in SeqsUpTo(DataLineSamples, MaxRows)}

InitParse ==
    /\ InitPage
    /\ copyBtnDisabled
    /\ emitted = <<>>
    /\ lastOp = "load"
    /\ arg \in {Str(t) : t \in ParseTexts}
    /\ ret = <<>>

CallParsePastedData ==
    /\ lastOp = "load"
    /\ LET r == parsePastedData(arg.text)
       IN /\ ret' = r.result
          /\ emitted' = r.shown
    /\ lastOp' = "parsePastedData"
    /\ UNCHANGED <<uiVars, arg>>

SpecParse == InitParse /\ [][CallParsePastedData]_vars

-----------------------------------------------------------------------------
(* generateTabSeparatedOutput followed by parsePastedData.                 *)

MaxOutRows == 2

OutputRows ==
    [number          : { <<"I", "N", "C", "1">>, <<>> },
     state           : { <<"N", "e", "w">>, <<>> },
     priority        : { <<"H", "i", "g", "h">>, <<"M", "e", "d", "i", "u", "m">> },
     assignmentGroup : { <<"G", " ", "1">> },
     filledBy        : { <<"m", "e">> },
     jobName         : { <<"O", "M", "S", "_", "A", "B">> }]

InitRoundTrip ==
    /\ InitPage
    /\ copyBtnDisabled
    /\ emitted = <<>>
    /\ lastOp = "load"
    /\ arg \in SeqsUpTo(OutputRows, MaxOutRows)
    /\ ret = <<>>

CallGenerate ==
    /\ lastOp = "load"
    /\ ret' = generateTabSeparatedOutput(arg)
    /\ lastOp' = "generateTabSeparatedOutput"
    /\ UNCHANGED <<uiVars, emitted, arg>>

CallParseGenerated ==
    /\ lastOp = "generateTabSeparatedOutput"
    /\ LET r == parsePastedData(ret)
       IN /\ ret' = r.result
          /\ emitted' = r.shown
    /\ lastOp' = "parsePastedData"
    /\ UNCHANGED <<uiVars, arg>>

NextRoundTrip == CallGenerate \/ CallParseGenerated

SpecRoundTrip == InitRoundTrip /\ [][NextRoundTrip]_vars

-----------------------------------------------------------------------------
(* Claims about parsePastedData, read off the input text itself.           *)

\* The non-blank lines of the text as given; the first is the header line.
RawLines(text) == SelectSeq(split(text, "\n"), NonBlank)

\* The trimmed tab-separated fields of a line.
FieldsOf(line) ==
    LET cells == split(line, "\t") IN [i \in 1..Len(cells) |-> trim(cells[i])]

\* The positions (from 1) of the header fields that carry a column name, in any case.
Carrying(text, name) ==
    LET fields == FieldsOf(RawLines(text)[1])
    IN {k \in 1..Len(fields) : toLowerCase(fields[k]) = toLowerCase(name)}

NameOfNumber == <<"N", "u", "m", "b", "e", "r">>

NameOfShortDescription == <<"S", "h", "o", "r", "t", " ", "d", "e", "s", "c", "r", "i", "p", "t", "i", "o", "n">>

Parsed == lastOp = "parsePastedData"

\* C1: parsePastedData signals "required columns missing" (one error
\* notification, null result) exactly when the header line carries neither
\* Number nor Short description; when it carries either, at any position, it
\* returns rows and signals nothing.
C1_RequiredColumns ==
    (Parsed /\ RawLines(arg.text) # <<>>) =>
        IF Carrying(arg.text, NameOfNumber) = {}
              /\ Carrying(arg.text, NameOfShortDescription) = {}
        THEN ~ret.ok /\ emitted = <<ErrRequiredColumns>>
        ELSE ret.ok /\ emitted = <<>>

\* C3: a header line that carries a required column, followed by no data
\* line, parses to the empty row sequence with no error signalled.  (The claim
\* speaks of any known column; this is its case of the two required ones.)
C3_HeaderOnlyIsEmpty ==
    (/\ Parsed
     /\ Len(RawLines(arg.text)) = 1
     /\ \/ Carrying(arg.text, NameOfNumber) # {}
        \/ Carrying(arg.text, NameOfShortDescription) # {})
        => (ret.ok /\ ret.rows = <<>> /\ emitted = <<>>)

\* The rows the parser reads from the lines of an accepted text, one per line
\* (the header line included, as row 1, which no claim looks at).
ReadRows(text) ==
    LET lines == LinesOf(text)
        columnIndices == ColumnIndices(HeadersOf(lines), 1, <<>>)
    IN [i \in 1..Len(lines) |-> RowOf(columnIndices, lines[i])]

\* The data lines whose number or shortDescription is non-empty.
Retained(read) ==
    {i \in 2..Len(read) : read[i].number # <<>> \/ read[i].shortDescription # <<>>}

\* C4: the rows returned for an accepted input are exactly the data lines
\* whose number or shortDescription is non-empty, in input order: the j-th
\* row returned is the j-th such line.
C4_RetainedRowsInOrder ==
    (Parsed /\ ret.ok) =>
        LET read == ReadRows(arg.text)
            kept == Retained(read)
        IN /\ Len(ret.rows) = Cardinality(kept)
           /\ \A i \in kept : ret.rows[Cardinality({j \in kept : j <= i})] = read[i]

\* A line with a populated priority is dropped ahead of a line that is kept.
C4_Witness ==
    /\ Parsed
    /\ ret.ok
    /\ Len(ret.rows) >= 1
    /\ LET read == ReadRows(arg.text)
       IN \E i \in 2..Len(read) :
             /\ i \notin Retained(read)
             /\ read[i].priority # <<>>
             /\ \E j \in Retained(read) : j > i

LogicalFields == {
    [field |-> "number",           name |-> <<"N", "u", "m", "b", "e", "r">>],
    [field |-> "state",            name |-> <<"S", "t", "a", "t", "e">>],
    [field |-> "priority",         name |-> <<"P", "r", "i", "o", "r", "i", "t", "y">>],
    [field |-> "assignmentGroup",  name |-> <<"A", "s", "s", "i", "g", "n", "m", "e", "n", "t", " ", "g", "r", "o", "u", "p">>],
    [field |-> "shortDescription", name |-> <<"S", "h", "o", "r", "t", " ", "d", "e", "s", "c", "r", "i", "p", "t", "i", "o", "n">>] }

\* The value the header assigns to a logical field on a data line: the line's
\* k-th field when the header's k-th field carries the name (the last such k
\* when several do), and the empty string when the line is shorter or no
\* header field carries the name.
AlignedValue(text, line, name) ==
    LET ks == Carrying(text, name)
    IN IF ks = {} THEN <<>>
       ELSE IF Max(ks) <= Len(FieldsOf(line)) THEN FieldsOf(line)[Max(ks)]
       ELSE <<>>

AlignedRow(text, line) ==
    [lf \in {x.field : x \in LogicalFields} |->
        AlignedValue(text, line, (CHOOSE x \in LogicalFields : x.field = lf).name)]

IsSubsequence(rows, all) ==
    \E m \in [1..Len(rows) -> 1..Len(all)] :
        /\ \A j \in 1..Len(rows) : rows[j] = all[m[j]]
        /\ \A j \in 1..(Len(rows) - 1) : m[j] < m[j + 1]

\* C5: every row returned holds, for each logical field, the trimmed field of
\* its data line at the position where the header line carries the field's
\* name, and the empty string when the line is shorter or the name is absent.
C5_ValuesAlignedToHeader ==
    (Parsed /\ ret.ok) =>
        LET lines == RawLines(arg.text)
        IN IsSubsequence(ret.rows,
               [i \in 1..(Len(lines) - 1) |-> AlignedRow(arg.text, lines[i + 1])])

\* An output row whose cells come back unchanged if the parser reads them:
\* a number, and no surrounding whitespace, tab or line break in any cell.
CleanCell(v) == v = trim(v) /\ \A i \in 1..Len(v) : v[i] \notin {"\t", "\n"}

CleanRow(row) ==
    /\ row.number # <<>>
    /\ \A v \in {row.number, row.state, row.priority, row.assignmentGroup,
                 row.filledBy, row.jobName} : CleanCell(v)

\* C2: the text generateTabSeparatedOutput writes for a sequence of output
\* rows parses back to rows with the same number, state, priority and
\* assignmentGroup, in the same order.
C2_RoundTrip ==
    (/\ Parsed
     /\ arg # <<>>
     /\ \A i \in 1..Len(arg) : CleanRow(arg[i]))
        => /\ ret.ok
           /\ Len(ret.rows) = Len(arg)
           /\ \A i \in 1..Len(arg) :
                 /\ ret.rows[i].number = arg[i].number
                 /\ ret.rows[i].state = arg[i].state
                 /\ ret.rows[i].priority = arg[i].priority
                 /\ ret.rows[i].assignmentGroup = arg[i].assignmentGroup

-----------------------------------------------------------------------------
(* extractJobName called on its own.                                       *)

MaxOcc == 2

MaxSegs == 2

\* Pieces of a description, most of them one ":OMS_..." occurrence each.
Occurrences == {
    <<":", "O", "M", "S", "_", "A", "B">>, <<":", "O", "M", "S", "_", "C", "D">>, <<":", " ", "O", "M", "S", "_", "A", "B", "C">>, <<":", "o", "m", "s", "_", "X", "Y", "Z", "W">>, <<":", "O", "M", "S", "_", "A", "b", "c", "d", "e">>,
    <<":", "O", "M", "S", "_", "x", "y">>, <<" ", "O", "M", "S", "_", "Z", "Z", "Z", "Z", "Z", "Z">>, <<":", "O", "M", "S", "_", "A", "B", "_", "2", "0", "2", "4">> }

\* What may follow the stem of a job name.
Segments == { <<"_", "S", "U", "N", "D", "A", "Y">>, <<"_", "M", "a", "y">>, <<"_", "2", "0", "2", "4">>, <<"_", "1", "2", "3", "4", "5">>, <<"_", "1", "2", "3">>, <<"_", "X">> }

RECURSIVE Concat(_)
Concat(parts) == IF parts = <<>> THEN <<>> ELSE Head(parts) \o Concat(Tail(parts))

Descriptions ==
    {Concat(occ) : occ \in SeqsUpTo(Occurrences, MaxOcc)}
        \cup {<<"J", "o", "b", ":", "O", "M", "S", "_", "J">> \o Concat(segs) \o <<"-", "M", "o", "n", "d", "a", "y", " ", "r", "u", "n">> :
                segs \in SeqsUpTo(Segments, MaxSegs)}

InitJob ==
    /\ InitPage
    /\ copyBtnDisabled
    /\ emitted = <<>>
    /\ lastOp = "load"
    /\ arg \in {Str(d) : d \in Descriptions} \cup NotAString
    /\ ret = <<>>

CallExtractJobName ==
    /\ lastOp = "load"
    /\ ret' = extractJobName(arg)
    /\ lastOp' = "extractJobName"
    /\ UNCHANGED <<uiVars, emitted, arg>>

SpecJob == InitJob /\ [][CallExtractJobName]_vars

Extracted == lastOp = "extractJobName" /\ arg.type = "string"

\* The texts 'OMS_' + captured suffix of the occurrences, left to right.
OccurrenceTexts(text) ==
    LET matches == matchAll(text, 1)
    IN [i \in 1..Len(matches) |-> MatchedText(matches[i])]

FullyUpper(t) == t = toUpperCase(t)

\* The occurrence the selection rule names: among the fully upper-case ones if
\* there is any, else among all, the longest, and of equally long ones the first.
Selected(occ) ==
    LET upper == {i \in 1..Len(occ) : FullyUpper(occ[i])}
        pool  == IF upper # {} THEN upper ELSE 1..Len(occ)
    IN CHOOSE i \in pool :
          \A j \in pool : /\ Len(occ[j]) <= Len(occ[i])
                          /\ j < i => Len(occ[j]) < Len(occ[i])

\* C6: extractJobName returns the occurrence the selection rule names,
\* truncated and upper-cased: the longest fully upper-case occurrence if there
\* is one, else the longest occurrence, the first of equally long ones.
C6_CandidateSelection ==
    Extracted =>
        LET occ == OccurrenceTexts(arg.text)
        IN IF occ = <<>> THEN ret = <<>>
           ELSE ret = toUpperCase(DateTrim(occ[Selected(occ)], 1))

\* The only fully upper-case occurrence is returned although a longer
\* mixed-case occurrence precedes it.
C6_Witness ==
    /\ Extracted
    /\ LET occ == OccurrenceTexts(arg.text)
       IN /\ Cardinality({i \in 1..Len(occ) : FullyUpper(occ[i])}) = 1
          /\ \E i, j \in 1..Len(occ) :
                /\ i < j
                /\ ~FullyUpper(occ[i])
                /\ FullyUpper(occ[j])
                /\ Len(occ[i]) > Len(occ[j])
                /\ ret = occ[j]

\* A separator followed by a weekday name, a month name or four digits.
HasDateFragment(s) ==
    \/ \E k \in 1..Len(dateKeywords) : DateIndex(s, dateKeywords[k]) >= 0
    \/ \E i \in 1..Len(s) :
          /\ s[i] \in Separators
          /\ i + 4 <= Len(s)
          /\ \A d \in 1..4 : s[i + d] \in Digits

\* C8: the job name returned holds no underscore or hyphen followed by a
\* weekday name, a month name or four digits.
C8_NoDateFragmentLeft ==
    Extracted => ~HasDateFragment(ret)

\* The candidate extractJobName settles on before it truncates.
Candidate(text) == BestMatch(matchAll(text, 1))

HasKeywordFragment(s) ==
    \E k \in 1..Len(dateKeywords) : DateIndex(s, dateKeywords[k]) >= 0

\* A separator followed by n digits; with exact, by n digits and no further one.
HasDigitRun(s, n, exact) ==
    \E i \in 1..Len(s) :
        /\ s[i] \in Separators
        /\ i + n <= Len(s)
        /\ \A d \in 1..n : s[i + d] \in Digits
        /\ exact => (i + n = Len(s) \/ s[i + n + 1] \notin Digits)

-----------------------------------------------------------------------------
(* processPriority called on its own.                                      *)

MaxPieces == 2

PriorityPieces == {
    <<"2", " ", "-", " ">>, <<"3", " ", "-", " ">>, <<"-">>, <<" ">>, <<"H", "i", "g", "h">>, <<"M", "o", "d", "e", "r", "a", "t", "e">>, <<"M", "O", "D", "E", "R", "A", "T", "E">>,
    <<"l", "o", "w", " ">>, <<"x", "1">> }

PriorityTexts == {Concat(ps) : ps \in SeqsUpTo(PriorityPieces, MaxPieces)}

InitPriority ==
    /\ InitPage
    /\ copyBtnDisabled
    /\ emitted = <<>>
    /\ lastOp = "load"
    /\ arg \in {Str(t) : t \in PriorityTexts} \cup NotAString
    /\ ret = <<>>

CallProcessPriority ==
    /\ lastOp = "load"
    /\ ret' = processPriority(arg)
    /\ lastOp' = "processPriority"
    /\ UNCHANGED <<uiVars, emitted, arg>>

SpecPriority == InitPriority /\ [][CallProcessPriority]_vars

\* The characters of s at the positions in keep, in order.
Restrict(s, keep) ==
    [n \in 1..Cardinality(keep) |->
        s[CHOOSE i \in keep : Cardinality({j \in keep : j <= i}) = n]]

\* The text with digits and hyphens removed and the surrounding whitespace cut.
StrippedAndTrimmed(text) ==
    LET plain == Restrict(text, {i \in 1..Len(text) : text[i] \notin Digits \cup {"-"}})
        black == {i \in 1..Len(plain) : plain[i] \notin WhiteSpace}
    IN Restrict(plain, {i \in 1..Len(plain) : \E a, b \in black : a <= i /\ i <= b})

\* Lower-cased t with every "moderate" turned into "medium": position by
\* position, the start of an occurrence gives "medium", the rest of it nothing,
\* and any other position its own character.
ModerateToMedium(t) ==
    LET low  == toLowerCase(t)
        hits == {i \in 1..Len(low) : StartsAt(low, i, <<"m", "o", "d", "e", "r", "a", "t", "e">>)}
    IN Concat([i \in 1..Len(low) |->
                  IF i \in hits THEN <<"m", "e", "d", "i", "u", "m">>
                  ELSE IF \E h \in hits : h < i /\ i < h + Len(<<"m", "o", "d", "e", "r", "a", "t", "e">>) THEN <<>>
                  ELSE <<low[i]>>])

\* C7: processPriority returns the empty string for an empty or non-text
\* input, and otherwise the input without digits and hyphens, trimmed, with
\* every 'moderate' (in any case) replaced by 'Medium', the first character
\* upper-cased and the others lower-cased; '2 - High' gives 'High' and
\* '3 - Moderate' gives 'Medium'.
C7_PriorityNormalized ==
    lastOp = "processPriority" =>
        IF arg.type # "string" \/ arg.text = <<>> THEN ret = <<>>
        ELSE LET expected == ModerateToMedium(StrippedAndTrimmed(arg.text))
             IN /\ Len(ret) = Len(expected)
                /\ \A i \in 1..Len(ret) :
                      ret[i] = IF i = 1 THEN charToUpper(expected[i]) ELSE expected[i]
                /\ arg.text = <<"2", " ", "-", " ", "H", "i", "g", "h">> => ret = <<"H", "i", "g", "h">>
                /\ arg.text = <<"3", " ", "-", " ", "M", "o", "d", "e", "r", "a", "t", "e">> => ret = <<"M", "e", "d", "i", "u", "m">>

C7_Witness ==
    /\ lastOp = "processPriority"
    /\ arg = Str(<<"3", " ", "-", " ", "M", "o", "d", "e", "r", "a", "t", "e">>)
    /\ ret = <<"M", "e", "d", "i", "u", "m">>

-----------------------------------------------------------------------------
(* Claims about the page.                                                  *)

\* A processing run on this paste fails: nothing but whitespace, or a header
\* line carrying neither Number nor Short description.
FailingPaste ==
    \/ trim(pasteArea) = <<>>
    \/ /\ Carrying(pasteArea, NameOfNumber) = {}
       /\ Carrying(pasteArea, NameOfShortDescription) = {}

\* C10: a processing run that fails shows exactly one error notification and
\* leaves the last processed result and the displayed output as they were;
\* the last processed result changes only in a run that ends in success.
C10_FailedRunKeepsResult ==
    [][/\ (lastOp' = "process" /\ FailingPaste) =>
            /\ Len(emitted') = 1
            /\ emitted'[1].type = "error"
            /\ currentProcessedData' = currentProcessedData
            /\ outputContainer' = outputContainer
       /\ currentProcessedData' # currentProcessedData =>
            /\ lastOp' = "process"
            /\ emitted' # <<>>
            /\ emitted'[Len(emitted')].type = "success"]_vars

\* A failed run after a successful one: the earlier result and table are kept.
C10_Witness ==
    /\ lastOp = "process"
    /\ FailingPaste
    /\ trim(pasteArea) # <<>>
    /\ Len(emitted) = 1
    /\ emitted[1].type = "error"
    /\ currentProcessedData # <<>>
    /\ outputContainer = Table(currentProcessedData)

=============================================================================
